---------------------------- MODULE Spec2Model ----------------------------
(***************************************************************************)
(* A model of alert_downtrends.py: the ticker loader, the downtrend        *)
(* detector, the report builder and the linear pipeline of main().         *)
(*                                                                         *)
(* Text is a sequence of one-character strings, so that strip() and        *)
(* split(",") are computed character by character as Python does.  A       *)
(* pandas Series is a sequence of points [idx, na, val]: idx is the index  *)
(* label (the session date), na marks a missing value (NaN), val is the    *)
(* close.                                                                  *)
(***************************************************************************)
EXTENDS Integers, Sequences, FiniteSets, TLC

VARIABLES
    pc,               \* position of the run
    cli_tickers,      \* args.tickers
    tickers_txt,      \* the file tickers.txt: [exists, lines]
    smtp_user,        \* args.smtp_user (text)
    smtp_pass,        \* args.smtp_pass (text)
    days_check,       \* args.days_check
    last_n_to_show,   \* args.last_n_to_show
    tickers,          \* result of load_tickers
    fetch,            \* outcome of yf.download: [called, raised, data]
    closes_by_ticker, \* the normalized mapping, in insertion order
    matches,          \* list of (ticker, series)
    subject,          \* the subject line built by main
    html_body,        \* result of build_email_html
    sent,             \* the calls of send_email, in order
    stdout,           \* what the run printed
    stderr,           \* diagnostics of a fatal end
    exit_status,      \* process status once pc = "exit"
    closes,           \* argument of a direct call of is_consecutive_down
    n,                \* argument of a direct call of is_consecutive_down
    ret               \* result of a direct call of is_consecutive_down

vars == <<pc, cli_tickers, tickers_txt, smtp_user, smtp_pass, days_check,
          last_n_to_show, tickers, fetch, closes_by_ticker, matches, subject,
          html_body, sent, stdout, stderr, exit_status, closes, n, ret>>

-----------------------------------------------------------------------------
(* Bounds of the model *)

MaxCli == 3        \* longest explicit input, in characters
MaxLineLen == 2    \* longest line of tickers.txt, without its newline
MaxLines == 2      \* most lines of tickers.txt
MaxLen == 4        \* longest series handed to the detector
MaxPrice == 3      \* closes range over 0..MaxPrice
MaxN == 3          \* largest consecutive-down threshold
MaxMatches == 2    \* most matches handed to the report builder directly
MaxShow == 2       \* largest display window

-----------------------------------------------------------------------------
(* Text *)

\* The characters used, in code-point order (Python compares str by code point).
Alphabet ==
    <<"\n", " ", "#", ",", "A", "B", "F", "G", "L", "M", "N", "O", "P", "S",
      "T", "X", "Y", "Z">>

Ord(c) == CHOOSE i \in 1..Len(Alphabet) : Alphabet[i] = c

Whitespace == {"\n", " "}

SeqsUpTo(S, k) == UNION {[1..m -> S] : m \in 0..k}

RECURSIVE lstrip(_)
lstrip(s) ==
    IF s # <<>> /\ Head(s) \in Whitespace THEN lstrip(Tail(s)) ELSE s

RECURSIVE rstrip(_)
rstrip(s) ==
    IF s # <<>> /\ s[Len(s)] \in Whitespace
    THEN rstrip(SubSeq(s, 1, Len(s) - 1))
    ELSE s

\* str.strip()
strip(s) == rstrip(lstrip(s))

\* str.split(sep): always at least one field; adjacent separators give "".
RECURSIVE split(_, _)
split(s, sep) ==
    IF \A i \in 1..Len(s) : s[i] # sep
    THEN <<s>>
    ELSE LET i == CHOOSE j \in 1..Len(s) :
                      s[j] = sep /\ \A k \in 1..(j - 1) : s[k] # sep
         IN  <<SubSeq(s, 1, i - 1)>> \o split(SubSeq(s, i + 1, Len(s)), sep)

\* str.startswith(prefix) for a one-character prefix
startswith(s, c) == s # <<>> /\ s[1] = c

\* a < b for str
StrLess(a, b) ==
    \E k \in 1..(Len(a) + 1) :
        /\ k <= Len(b)
        /\ \A j \in 1..(k - 1) : a[j] = b[j]
        /\ (k = Len(a) + 1 \/ Ord(a[k]) < Ord(b[k]))

ToSet(s) == {s[i] : i \in 1..Len(s)}

\* sorted(S) for a set of str
RECURSIVE sorted(_)
sorted(S) ==
    IF S = {} THEN <<>>
    ELSE LET m == CHOOSE x \in S : \A y \in S \ {x} : StrLess(x, y)
         IN  <<m>> \o sorted(S \ {m})

\* [f(x) for x in s if p(x)] with f = strip, p = bool(strip(x))
RECURSIVE StripNonEmpty(_)
StripNonEmpty(s) ==
    IF s = <<>> THEN <<>>
    ELSE (IF strip(Head(s)) # <<>> THEN <<strip(Head(s))>> ELSE <<>>)
         \o StripNonEmpty(Tail(s))

\* [line.strip() for line in f if line.strip() and not line.startswith("#")]
RECURSIVE FileSymbolLines(_)
FileSymbolLines(lines) ==
    IF lines = <<>> THEN <<>>
    ELSE (IF strip(Head(lines)) # <<>> /\ ~startswith(Head(lines), "#")
          THEN <<strip(Head(lines))>>
          ELSE <<>>)
         \o FileSymbolLines(Tail(lines))

DefaultTickers ==
    << <<"A", "A", "P", "L">>, <<"M", "S", "F", "T">>, <<"T", "S", "L", "A">>,
       <<"A", "M", "Z", "N">>, <<"G", "O", "O", "G", "L">> >>

\* The list load_tickers holds before its emptiness test.
SelectedTickers(cli, file) ==
    IF strip(cli) # <<>> THEN StripNonEmpty(split(cli, ","))
    ELSE IF file.exists THEN FileSymbolLines(file.lines)
    ELSE DefaultTickers

\* Variant: the list is returned as collected, without sorted(set(...)).
load_tickers_unsorted(cli, file) ==
    LET t == SelectedTickers(cli, file)
    IN  IF t = <<>>
        THEN [raised |-> TRUE, value |-> <<>>]
        ELSE [raised |-> FALSE, value |-> t]

\* Variant: an explicit input without any token falls through to the file
\* and the default list.
load_tickers_fallback(cli, file) ==
    LET e == StripNonEmpty(split(cli, ","))
        t == IF e # <<>> THEN e
             ELSE IF file.exists THEN FileSymbolLines(file.lines)
             ELSE DefaultTickers
    IN  IF t = <<>>
        THEN [raised |-> TRUE, value |-> <<>>]
        ELSE [raised |-> FALSE, value |-> sorted(ToSet(t))]

\* Variant: the emptiness test of lines 37-38 is missing.
load_tickers_nocheck(cli, file) ==
    [raised |-> FALSE, value |-> sorted(ToSet(SelectedTickers(cli, file)))]

load_tickers(cli, file) ==
    LET t == SelectedTickers(cli, file)
    IN  IF t = <<>>
        THEN [raised |-> TRUE, value |-> <<>>]
        ELSE [raised |-> FALSE, value |-> sorted(ToSet(t))]

-----------------------------------------------------------------------------
(* pandas Series *)

Point(i, v) == [idx |-> i, na |-> FALSE, val |-> v]
NaN(i) == [idx |-> i, na |-> TRUE, val |-> 0]

RECURSIVE dropna(_)
dropna(s) ==
    IF s = <<>> THEN <<>>
    ELSE (IF Head(s).na THEN <<>> ELSE <<Head(s)>>) \o dropna(Tail(s))

\* Series.tail(k): iloc[0:0] for k = 0, else iloc[-k:]
tail(s, k) ==
    IF k = 0 THEN <<>>
    ELSE IF k > 0
         THEN (IF k >= Len(s) THEN s ELSE SubSeq(s, Len(s) - k + 1, Len(s)))
         ELSE (IF -k >= Len(s) THEN <<>> ELSE SubSeq(s, 1 - k, Len(s)))

\* Series.diff(): element minus its predecessor; the first element, and any
\* difference with a missing operand, is NaN.
diff(s) ==
    [i \in 1..Len(s) |->
        IF i = 1 \/ s[i].na \/ s[i - 1].na
        THEN NaN(s[i].idx)
        ELSE Point(s[i].idx, s[i].val - s[i - 1].val)]

\* (s < 0).all(): a comparison with NaN is False; all() of nothing is True
all_lt_0(s) == \A i \in 1..Len(s) : ~s[i].na /\ s[i].val < 0

all_le_0(s) == \A i \in 1..Len(s) : ~s[i].na /\ s[i].val <= 0

\* Variant: a flat day counts as down (<= 0 for < 0).
is_consecutive_down_flat(c, k) ==
    LET valid == dropna(c)
    IN  IF Len(valid) < k + 1
        THEN FALSE
        ELSE all_le_0(dropna(diff(tail(valid, k + 1))))

\* Variant: the first dropna() of line 46 is missing, so missing values
\* count towards the length and break the differences.
is_consecutive_down_nodropna(c, k) ==
    IF Len(c) < k + 1
    THEN FALSE
    ELSE all_lt_0(dropna(diff(tail(c, k + 1))))

is_consecutive_down(c, k) ==
    LET valid == dropna(c)
    IN  IF Len(valid) < k + 1
        THEN FALSE
        ELSE all_lt_0(dropna(diff(tail(valid, k + 1))))

-----------------------------------------------------------------------------
(* Report *)

None == [kind |-> "None"]

\* One <tr>: the ticker and one <div> per (date, close) of the last k closes.
\* The rendering of a cell as text keeps the pair (date, close).
Row(m, k) ==
    LET shown == tail(dropna(m[2]), k)
    IN  [tkr |-> m[1],
         cells |-> [i \in 1..Len(shown) |-> <<shown[i].idx, shown[i].val>>]]

\* Variant: the early return of lines 54-55 is missing.
build_email_html_noguard(ms, k) ==
    [kind |-> "html", last_n |-> k,
     rows |-> [i \in 1..Len(ms) |-> Row(ms[i], k)]]

build_email_html(ms, k) ==
    IF ms = <<>>
    THEN None
    ELSE [kind |-> "html", last_n |-> k,
          rows |-> [i \in 1..Len(ms) |-> Row(ms[i], k)]]

\* f"[Stock Alert] {len(matches)} ticker(s) down {days_check} days in a row"
\* (the UTC timestamp is left out of the model)
Subject(ms, days) == [count |-> Len(ms), days |-> days]

-----------------------------------------------------------------------------
(* The fetch collaborator: yf.download either raises or returns a frame.   *)
(* A frame is [multi, columns]: with multi (data.columns is a MultiIndex)  *)
(* the columns are keyed by <<symbol, field>>, otherwise by field.         *)

MaxDaysCheck == 2  \* largest threshold of a whole run

FromValues(vs) ==
    [i \in 1..Len(vs) |-> IF vs[i] < 0 THEN NaN(i) ELSE Point(i, vs[i])]

\* Every series of at most k points, closes in 0..MaxPrice or missing.
AllSeries(k) == {FromValues(vs) : vs \in SeqsUpTo(-1..MaxPrice, k)}

\* The closes a provider column may hold in a whole run: a falling series,
\* one ending flat, and a short one with a missing value.
Pool == <<FromValues(<<3, 2, 1>>), FromValues(<<3, 2, 2>>), FromValues(<<2, -1, 1>>)>>

OpenSeries == FromValues(<<1, 1>>)

Extra == <<"X", "Y", "Z">>   \* a symbol nobody asked for

\* ch[t]: 0 = no column for t, 1 = columns for t but no Close, 1 + i = Close is Pool[i]
MultiFrame(ch) ==
    LET cols == {<<t, "Open">> : t \in {u \in DOMAIN ch : ch[u] >= 1}}
                \cup {<<t, "Close">> : t \in {u \in DOMAIN ch : ch[u] >= 2}}
    IN  [multi |-> TRUE,
         columns |-> [c \in cols |->
                        IF c[2] = "Close" THEN Pool[ch[c[1]] - 1] ELSE OpenSeries]]

SingleFrame(c) ==
    [multi |-> FALSE,
     columns |-> IF c >= 2
                 THEN [f \in {"Open", "Close"} |->
                          IF f = "Close" THEN Pool[c - 1] ELSE OpenSeries]
                 ELSE [f \in {"Open"} |-> OpenSeries]]

Frames(req) ==
    {MultiFrame(ch) :
        ch \in {g \in [ToSet(req) \cup {Extra} -> 0..(Len(Pool) + 1)] :
                    g[Extra] \in {0, 2}}}
    \cup {SingleFrame(c) : c \in 1..(Len(Pool) + 1)}

NoData == [multi |-> FALSE, columns |-> <<>>]

-----------------------------------------------------------------------------
(* main(): lines 120-133 *)

\* Variant: a requested symbol without a Close column gets an empty series.
RECURSIVE NormalizeMulti_all(_, _)
NormalizeMulti_all(data, req) ==
    IF req = <<>> THEN <<>>
    ELSE << <<Head(req),
              IF <<Head(req), "Close">> \in DOMAIN data.columns
              THEN dropna(data.columns[<<Head(req), "Close">>])
              ELSE <<>> >> >>
         \o NormalizeMulti_all(data, Tail(req))

\* for t in tickers: if (t, "Close") in data.columns: ...[t] = data[(t, "Close")].dropna()
RECURSIVE NormalizeMulti(_, _)
NormalizeMulti(data, req) ==
    IF req = <<>> THEN <<>>
    ELSE (IF <<Head(req), "Close">> \in DOMAIN data.columns
          THEN << <<Head(req), dropna(data.columns[<<Head(req), "Close">>])>> >>
          ELSE <<>>)
         \o NormalizeMulti(data, Tail(req))

\* Variant: a single-shape frame without Close gives an empty mapping
\* instead of an error.
Normalize_swallow(data, req) ==
    IF data.multi
    THEN [raised |-> FALSE, value |-> NormalizeMulti(data, req)]
    ELSE IF "Close" \in DOMAIN data.columns /\ req # <<>>
         THEN [raised |-> FALSE,
               value |-> << <<req[1], dropna(data.columns["Close"])>> >>]
         ELSE [raised |-> FALSE, value |-> <<>>]

\* The mapping as a list of (key, series) in insertion order; data["Close"]
\* raises KeyError when the single-shape frame has no such column, and
\* tickers[0] raises IndexError on an empty list.
Normalize(data, req) ==
    IF data.multi
    THEN [raised |-> FALSE, value |-> NormalizeMulti(data, req)]
    ELSE IF "Close" \in DOMAIN data.columns /\ req # <<>>
         THEN [raised |-> FALSE,
               value |-> << <<req[1], dropna(data.columns["Close"])>> >>]
         ELSE [raised |-> TRUE, value |-> <<>>]

\* Variant: the test of line 132 is negated.
RECURSIVE FindMatches_negated(_, _)
FindMatches_negated(cbt, days) ==
    IF cbt = <<>> THEN <<>>
    ELSE (IF ~is_consecutive_down(Head(cbt)[2], days) THEN <<Head(cbt)>> ELSE <<>>)
         \o FindMatches_negated(Tail(cbt), days)

RECURSIVE FindMatches(_, _)
FindMatches(cbt, days) ==
    IF cbt = <<>> THEN <<>>
    ELSE (IF is_consecutive_down(Head(cbt)[2], days) THEN <<Head(cbt)>> ELSE <<>>)
         \o FindMatches(Tail(cbt), days)

Line(l, a) == [line |-> l, arg |-> a]

\* Variant: "and" for "or" in line 139.
CredentialsMissing_both(u, p) == u = <<>> /\ p = <<>>

\* line 139: not args.smtp_user or not args.smtp_pass
CredentialsMissing(u, p) == u = <<>> \/ p = <<>>

-----------------------------------------------------------------------------
(* Initial states *)

Absent == [exists |-> FALSE, lines |-> <<>>]
File(ls) == [exists |-> TRUE, lines |-> ls]

NoFetch == [called |-> FALSE, raised |-> FALSE, data |-> NoData]

\* State of a run before main() has done anything.
Fresh ==
    /\ tickers = <<>>
    /\ fetch = NoFetch
    /\ closes_by_ticker = <<>>
    /\ subject = Subject(<<>>, 0)
    /\ sent = <<>>
    /\ stdout = <<>>
    /\ stderr = <<>>
    /\ exit_status = 0

NoDirectCall == closes = <<>> /\ n = 0 /\ ret = FALSE

Credentials == {<<>>, <<"A">>}

\* A whole run of main()
Init ==
    /\ pc = "start"
    /\ cli_tickers \in {<<>>, <<",">>, <<"A">>, <<"B", ",", "A">>}
    /\ tickers_txt \in {Absent, File(<<>>), File(<< <<"B", "\n">> >>)}
    /\ smtp_user \in Credentials
    /\ smtp_pass \in Credentials
    /\ days_check \in 1..MaxDaysCheck
    /\ last_n_to_show \in {1, MaxShow}
    /\ matches = <<>>
    /\ html_body = None
    /\ Fresh
    /\ NoDirectCall

CliChars == {"A", "B", " ", ","}

\* Lines of tickers.txt as the file iterator yields them
FileLines ==
    {body \o <<"\n">> : body \in SeqsUpTo({"A", "#", " "}, MaxLineLen)}

AllFiles == {Absent} \cup {File(ls) : ls \in SeqsUpTo(FileLines, MaxLines)}

\* load_tickers on every explicit input and every tickers.txt within the
\* bounds.  The file is read only when the explicit input is blank, so every
\* explicit input is paired with three files and every file with the blank
\* explicit inputs.
InitLoader ==
    /\ pc = "start"
    /\ \/ /\ cli_tickers \in SeqsUpTo(CliChars, MaxCli)
          /\ tickers_txt \in {Absent, File(<<>>), File(<< <<"A", "\n">> >>)}
       \/ /\ cli_tickers \in {<<>>, <<" ">>}
          /\ tickers_txt \in AllFiles
    /\ smtp_user = <<>>
    /\ smtp_pass = <<>>
    /\ days_check = 1
    /\ last_n_to_show = 1
    /\ matches = <<>>
    /\ html_body = None
    /\ Fresh
    /\ NoDirectCall

\* is_consecutive_down on every series and threshold within the bounds
InitDetector ==
    /\ pc = "call_detector"
    /\ closes \in AllSeries(MaxLen)
    /\ n \in 1..MaxN
    /\ ret = FALSE
    /\ cli_tickers = <<>>
    /\ tickers_txt = Absent
    /\ smtp_user = <<>>
    /\ smtp_pass = <<>>
    /\ days_check = 1
    /\ last_n_to_show = 1
    /\ matches = <<>>
    /\ html_body = None
    /\ Fresh

MatchPool == {<<t, Pool[i]>> : t \in {<<"A">>, <<"B">>}, i \in {1, 3}}

\* build_email_html on every match list and display window within the bounds
InitReport ==
    /\ pc = "call_build"
    /\ matches \in SeqsUpTo(MatchPool, MaxMatches)
    /\ last_n_to_show \in -1..MaxShow
    /\ html_body = [kind |-> "unset"]
    /\ cli_tickers = <<>>
    /\ tickers_txt = Absent
    /\ smtp_user = <<>>
    /\ smtp_pass = <<>>
    /\ days_check = 1
    /\ Fresh
    /\ NoDirectCall

-----------------------------------------------------------------------------
(* Steps of main() *)

args == <<cli_tickers, tickers_txt, smtp_user, smtp_pass, days_check, last_n_to_show>>
direct == <<closes, n, ret>>

\* line 106; SystemExit("No tickers provided.") prints its message on stderr
\* and ends the process with status 1.
LoadStep ==
    /\ pc = "start"
    /\ LET r == load_tickers(cli_tickers, tickers_txt)
       IN  IF r.raised
           THEN /\ pc' = "exit"
                /\ exit_status' = 1
                /\ stderr' = Append(stderr, "No tickers provided.")
                /\ UNCHANGED tickers
           ELSE /\ pc' = "fetch"
                /\ tickers' = r.value
                /\ UNCHANGED <<exit_status, stderr>>
    /\ UNCHANGED <<args, direct, fetch, closes_by_ticker, matches, subject,
                   html_body, sent, stdout>>

\* lines 110-118; an exception of the collaborator is not caught: traceback
\* on stderr, status 1.
FetchStep ==
    /\ pc = "fetch"
    /\ \/ /\ fetch' = [called |-> TRUE, raised |-> TRUE, data |-> NoData]
          /\ pc' = "exit"
          /\ exit_status' = 1
          /\ stderr' = Append(stderr, "Traceback")
       \/ /\ \E d \in Frames(tickers) :
                fetch' = [called |-> TRUE, raised |-> FALSE, data |-> d]
          /\ pc' = "normalize"
          /\ UNCHANGED <<exit_status, stderr>>
    /\ UNCHANGED <<args, direct, tickers, closes_by_ticker, matches, subject,
                   html_body, sent, stdout>>

\* lines 121-128
NormalizeStep ==
    /\ pc = "normalize"
    /\ LET r == Normalize(fetch.data, tickers)
       IN  IF r.raised
           THEN /\ pc' = "exit"
                /\ exit_status' = 1
                /\ stderr' = Append(stderr, "Traceback")
                /\ UNCHANGED closes_by_ticker
           ELSE /\ pc' = "detect"
                /\ closes_by_ticker' = r.value
                /\ UNCHANGED <<exit_status, stderr>>
    /\ UNCHANGED <<args, direct, tickers, fetch, matches, subject, html_body,
                   sent, stdout>>

\* lines 130-133
DetectStep ==
    /\ pc = "detect"
    /\ matches' = FindMatches(closes_by_ticker, days_check)
    /\ pc' = "decide"
    /\ UNCHANGED <<args, direct, tickers, fetch, closes_by_ticker, subject,
                   html_body, sent, stdout, stderr, exit_status>>

\* lines 135-138
ReportStep ==
    /\ pc = "decide"
    /\ matches # <<>>
    /\ subject' = Subject(matches, days_check)
    /\ html_body' = build_email_html(matches, last_n_to_show)
    /\ pc' = "deliver"
    /\ UNCHANGED <<args, direct, tickers, fetch, closes_by_ticker, matches,
                   sent, stdout, stderr, exit_status>>

\* lines 155-156, then main() returns: status 0
NoMatchStep ==
    /\ pc = "decide"
    /\ matches = <<>>
    /\ stdout' = Append(stdout, Line("no matches", <<>>))
    /\ pc' = "exit"
    /\ exit_status' = 0
    /\ UNCHANGED <<args, direct, tickers, fetch, closes_by_ticker, matches,
                   subject, html_body, sent, stderr>>

\* lines 139-143
DryRunStep ==
    /\ pc = "deliver"
    /\ CredentialsMissing(smtp_user, smtp_pass)
    /\ stdout' = stdout \o <<Line("warning", <<>>),
                             Line("subject", subject),
                             Line("body", IF html_body = None THEN <<>> ELSE html_body)>>
    /\ pc' = "exit"
    /\ exit_status' = 0
    /\ UNCHANGED <<args, direct, tickers, fetch, closes_by_ticker, matches,
                   subject, html_body, sent, stderr>>

\* lines 144-153 and 89-102; a transport failure is not caught
SendStep ==
    /\ pc = "deliver"
    /\ ~CredentialsMissing(smtp_user, smtp_pass)
    /\ sent' = Append(sent, [subject |-> subject, html_body |-> html_body])
    /\ \/ /\ pc' = "sent"
          /\ UNCHANGED <<exit_status, stderr>>
       \/ /\ pc' = "exit"
          /\ exit_status' = 1
          /\ stderr' = Append(stderr, "Traceback")
    /\ UNCHANGED <<args, direct, tickers, fetch, closes_by_ticker, matches,
                   subject, html_body, stdout>>

\* line 154, then main() returns: status 0
ConfirmStep ==
    /\ pc = "sent"
    /\ stdout' = Append(stdout, Line("email sent", Len(matches)))
    /\ pc' = "exit"
    /\ exit_status' = 0
    /\ UNCHANGED <<args, direct, tickers, fetch, closes_by_ticker, matches,
                   subject, html_body, sent, stderr>>

Next ==
    \/ LoadStep
    \/ FetchStep
    \/ NormalizeStep
    \/ DetectStep
    \/ ReportStep
    \/ NoMatchStep
    \/ DryRunStep
    \/ SendStep
    \/ ConfirmStep

Spec == Init /\ [][Next]_vars

SpecLoader == InitLoader /\ [][LoadStep]_vars

-----------------------------------------------------------------------------
(* Direct calls of the pure functions *)

CallDetector ==
    /\ pc = "call_detector"
    /\ ret' = is_consecutive_down(closes, n)
    /\ pc' = "returned"
    /\ UNCHANGED <<args, closes, n, tickers, fetch, closes_by_ticker, matches,
                   subject, html_body, sent, stdout, stderr, exit_status>>

SpecDetector == InitDetector /\ [][CallDetector]_vars

CallBuild ==
    /\ pc = "call_build"
    /\ html_body' = build_email_html(matches, last_n_to_show)
    /\ pc' = "returned"
    /\ UNCHANGED <<args, direct, tickers, fetch, closes_by_ticker, matches,
                   subject, sent, stdout, stderr, exit_status>>

SpecReport == InitReport /\ [][CallBuild]_vars

-----------------------------------------------------------------------------
(* Properties of is_consecutive_down, under SpecDetector *)

\* The non-missing points of the argument, in order.
ValidCloses == SelectSeq(closes, LAMBDA p : ~p.na)

\* C1: with at least n+1 non-missing points (n >= 1) the detector returns
\* true exactly when each of the n differences between the last n+1
\* non-missing points is strictly negative; a flat or rising pair in that
\* window gives false, and points before the window play no part.
C1_TrailingWindowStrictlyDown ==
    (pc = "returned" /\ Len(ValidCloses) >= n + 1) =>
        (ret <=> \A i \in (Len(ValidCloses) - n + 1)..Len(ValidCloses) :
                    ValidCloses[i].val < ValidCloses[i - 1].val)

\* A true result on a series that has a missing value and whose first pair,
\* lying before the trailing window, rises.
C1_Witness ==
    /\ pc = "returned"
    /\ ret
    /\ Len(ValidCloses) > n + 1
    /\ Len(closes) > Len(ValidCloses)
    /\ ValidCloses[1].val < ValidCloses[2].val

\* C2: with fewer than n+1 non-missing points (missing values not counted,
\* the empty series included) the detector returns false.
C2_ShortSeriesIsNoMatch ==
    (pc = "returned" /\ Len(ValidCloses) < n + 1) => ret = FALSE

\* A series long enough only if its missing values were counted, whose
\* non-missing points fall.
C2_Witness ==
    /\ pc = "returned"
    /\ Len(closes) >= n + 1
    /\ Len(ValidCloses) < n + 1
    /\ Len(ValidCloses) >= 2
    /\ \A i \in 2..Len(ValidCloses) : ValidCloses[i].val < ValidCloses[i - 1].val
    /\ ret = FALSE

-----------------------------------------------------------------------------
(* Properties of build_email_html, under SpecReport *)

\* C4: build_email_html returns None for the empty match list and a report
\* body, never None, for a non-empty one, whatever the display window.
C4_AbsentIffNoMatches ==
    pc = "returned" =>
        /\ matches = <<>> => html_body = None
        /\ matches # <<>> =>
              /\ html_body # None
              /\ html_body.kind = "html"
              /\ Len(html_body.rows) = Len(matches)

\* A body built for two matches with a display window of zero.
C4_Witness ==
    /\ pc = "returned"
    /\ Len(matches) = 2
    /\ last_n_to_show = 0
    /\ html_body.kind = "html"
    /\ \A i \in 1..2 : html_body.rows[i].cells = <<>>

-----------------------------------------------------------------------------
(* Properties of load_tickers, under SpecLoader *)

CliSymbols == {strip(x) : x \in ToSet(split(cli_tickers, ","))} \ {<<>>}

FileSymbols ==
    {strip(l) : l \in {x \in ToSet(tickers_txt.lines) : x = <<>> \/ x[1] # "#"}}
    \ {<<>>}

DefaultSymbols == ToSet(DefaultTickers)

\* The symbols of the source the code reads.
UsedSymbols ==
    IF strip(cli_tickers) # <<>> THEN CliSymbols
    ELSE IF tickers_txt.exists THEN FileSymbols
    ELSE DefaultSymbols

\* C7: when load_tickers returns, its result is non-empty, strictly
\* ascending (so sorted and free of duplicates) and holds exactly the
\* distinct symbols of the source that was used.
C7_NonEmptySortedDistinct ==
    pc = "fetch" =>
        /\ tickers # <<>>
        /\ \A i \in 1..(Len(tickers) - 1) : StrLess(tickers[i], tickers[i + 1])
        /\ ToSet(tickers) = UsedSymbols

\* Two symbols that the source lists in descending order.
C7_Witness ==
    /\ pc = "fetch"
    /\ Len(tickers) = 2
    /\ LET t == SelectedTickers(cli_tickers, tickers_txt)
       IN  Len(t) = 2 /\ StrLess(t[2], t[1])

\* The outcome of load_tickers when the source it reads holds the symbols S.
LoaderOutcome(S) ==
    IF S = {}
    THEN pc = "exit" /\ exit_status = 1 /\ tickers = <<>>
    ELSE pc = "fetch" /\ ToSet(tickers) = S

\* C8 as stated: the explicit input is used only when trimming and
\* splitting it yields a token, otherwise the file is used if it exists and
\* else the default list, so an explicit input of commas and blanks does
\* not by itself make the loader fail.
C8_ExplicitWithoutTokenFallsBack ==
    pc # "start" =>
        LoaderOutcome(IF CliSymbols # {} THEN CliSymbols
                      ELSE IF tickers_txt.exists THEN FileSymbols
                      ELSE DefaultSymbols)

\* C8 amended: the explicit input is the source whenever it is not blank,
\* otherwise tickers.txt is when it exists, otherwise the default list; the
\* loader fails exactly when that one source yields no symbol.
C8_FailsWhenSelectedSourceEmpty ==
    pc # "start" =>
        /\ strip(cli_tickers) # <<>> => LoaderOutcome(CliSymbols)
        /\ (strip(cli_tickers) = <<>> /\ tickers_txt.exists) =>
              LoaderOutcome(FileSymbols)
        /\ (strip(cli_tickers) = <<>> /\ ~tickers_txt.exists) =>
              LoaderOutcome(DefaultSymbols)

\* A failure on an explicit input of commas and blanks while tickers.txt
\* holds a symbol.
C8_Witness ==
    /\ pc = "exit"
    /\ strip(cli_tickers) # <<>>
    /\ CliSymbols = {}
    /\ tickers_txt.exists
    /\ FileSymbols # {}

-----------------------------------------------------------------------------
(* Properties of a whole run, under Spec *)

Keys(cbt) == {cbt[i][1] : i \in 1..Len(cbt)}

\* The fetch returned the combined shape and lines 121-128 have run.
NormalizedCombined ==
    /\ fetch.called /\ ~fetch.raised /\ fetch.data.multi
    /\ pc # "normalize"

\* C3: for a combined fetch result the mapping has a key for a requested
\* symbol exactly when the result has that symbol's Close column, and has
\* no key outside the requested symbols.
C3_KeyIffCloseColumn ==
    NormalizedCombined =>
        /\ \A t \in ToSet(tickers) :
              t \in Keys(closes_by_ticker)
                  <=> <<t, "Close">> \in DOMAIN fetch.data.columns
        /\ Keys(closes_by_ticker) \subseteq ToSet(tickers)
        /\ Len(closes_by_ticker) = Cardinality(Keys(closes_by_ticker))

\* Of two requested symbols one has a Close column and the other has
\* columns but no Close, while an unrequested symbol has a Close column.
C3_Witness ==
    /\ NormalizedCombined
    /\ Len(tickers) = 2
    /\ <<tickers[1], "Close">> \in DOMAIN fetch.data.columns
    /\ <<tickers[2], "Open">> \in DOMAIN fetch.data.columns
    /\ <<tickers[2], "Close">> \notin DOMAIN fetch.data.columns
    /\ <<Extra, "Close">> \in DOMAIN fetch.data.columns
    /\ Keys(closes_by_ticker) = {tickers[1]}

\* C5: when at least one symbol matches and the SMTP user or password is
\* absent, the run prints the warning, the subject and the body, never
\* calls send_email, and ends with status 0.
C5_DryRunWithoutCredentials ==
    (matches # <<>> /\ (smtp_user = <<>> \/ smtp_pass = <<>>)) =>
        /\ sent = <<>>
        /\ pc \in {"decide", "deliver", "exit"}
        /\ pc = "exit" =>
              /\ exit_status = 0
              /\ Len(stdout) = 3
              /\ stdout[1].line = "warning"
              /\ stdout[2] = Line("subject", Subject(matches, days_check))
              /\ stdout[3].line = "body"
              /\ stdout[3].arg = build_email_html(matches, last_n_to_show)

\* A finished run with a match, a user name and no password.
C5_Witness ==
    /\ pc = "exit"
    /\ matches # <<>>
    /\ smtp_user # <<>>
    /\ smtp_pass = <<>>
    /\ Len(stdout) = 3

\* The fetch raised, or returned a frame from which no closes can be read
\* (the single shape without a Close column).
FetchUnusable ==
    /\ fetch.called
    /\ \/ fetch.raised
       \/ ~fetch.data.multi /\ "Close" \notin DOMAIN fetch.data.columns

NoSymbolDown ==
    \A i \in 1..Len(closes_by_ticker) :
        ~is_consecutive_down(closes_by_ticker[i][2], days_check)

\* C9: when the fetch succeeds and no symbol satisfies the predicate, no
\* report is built, nothing is sent, the "no matches" line is printed and
\* the run ends with status 0, with or without credentials.
C9_NoMatchesNoReport ==
    (fetch.called /\ ~FetchUnusable /\ pc \notin {"normalize", "detect"}
     /\ NoSymbolDown) =>
        /\ matches = <<>>
        /\ html_body = None
        /\ sent = <<>>
        /\ pc \in {"decide", "exit"}
        /\ pc = "decide" => stdout = <<>>
        /\ pc = "exit" =>
              /\ exit_status = 0
              /\ stdout = <<Line("no matches", <<>>)>>
              /\ stderr = <<>>

\* A finished run with credentials whose two series are both no match.
C9_Witness ==
    /\ pc = "exit"
    /\ fetch.called /\ ~FetchUnusable
    /\ Len(closes_by_ticker) = 2
    /\ NoSymbolDown
    /\ smtp_user # <<>> /\ smtp_pass # <<>>
    /\ Len(stdout) = 1

\* C10: when the resolved symbol list is empty the run ends with a
\* non-zero status and a diagnostic before the fetch is started: no
\* fetch, no detection, no report, no delivery.
C10_NoSymbolsAbortsBeforeFetch ==
    (pc # "start" /\ SelectedTickers(cli_tickers, tickers_txt) = <<>>) =>
        /\ pc = "exit"
        /\ exit_status # 0
        /\ stderr = <<"No tickers provided.">>
        /\ ~fetch.called
        /\ closes_by_ticker = <<>>
        /\ matches = <<>>
        /\ html_body = None
        /\ sent = <<>>
        /\ stdout = <<>>

\* A run ended by an explicit input that holds only a comma.
C10_Witness ==
    /\ pc = "exit"
    /\ cli_tickers = <<",">>
    /\ exit_status = 1
    /\ ~fetch.called

=============================================================================
